---- MODULE Spec2Model ----
(***************************************************************************)
(* Ballot-validity gates (src/gates/voting/ballots.py), the occurrence     *)
(* counting gate (src/gates/listgates.py) and the exponential ElGamal      *)
(* gates (src/gates/expelgamalgates.py), evaluated on concrete wire        *)
(* values.  A Group is represented by its order; a wire by the group       *)
(* element it carries (0 .. order-1).  An assertion gate is a predicate:   *)
(* TRUE when no ValueError is raised.  Python lists are 1-based sequences. *)
(***************************************************************************)
EXTENDS Integers, Sequences, FiniteSets, TLC

VARIABLES pc, op, group, ballot, matrix, params, ordered_points, curve,
          accepted, points, ct

vars == <<pc, op, group, ballot, matrix, params, ordered_points, curve,
          accepted, points, ct>>

(***************************************************************************)
(* Bounds of the model.                                                    *)
(***************************************************************************)
SmallOrder == 3
LargeOrder == 7
MaxLen == 5
MaxMultiLen == 3
MaxEntry == 3
MaxBits == 2
MaxPointLen == 4
MaxCand == 3
MaxRank == 3
MaxCell == 2
CurveOrder == 5

GroupOrders == {SmallOrder, LargeOrder}
Elems(grp) == 0 .. (grp - 1)
SeqsOf(S, lo, hi) == UNION {[1 .. n -> S] : n \in lo .. hi}
None == <<>>
Some(v) == <<v>>
Min(a, b) == IF a < b THEN a ELSE b

(***************************************************************************)
(* Group: addition, subtraction, multiplication modulo the order, and the  *)
(* embedding gen(n).  Python's sum() starts from the integer 0.            *)
(***************************************************************************)
gen(grp, n) == n % grp
add(grp, a, b) == (a + b) % grp
sub(grp, a, b) == (a - b) % grp
mul(grp, a, b) == (a * b) % grp

RECURSIVE sum(_, _)
sum(grp, wires) ==
    IF wires = <<>> THEN 0
    ELSE add(grp, sum(grp, SubSeq(wires, 1, Len(wires) - 1)), wires[Len(wires)])

RECURSIVE Pow2(_)
Pow2(n) == IF n = 0 THEN 1 ELSE 2 * Pow2(n - 1)
FitsIn(v, bits) == v < Pow2(bits)

(***************************************************************************)
(* Collaborator gates.  Where a contract leaves the behaviour undefined    *)
(* the outcome is taken from an extra argument (zip, cmp, u), which the    *)
(* call draws nondeterministically.                                        *)
(***************************************************************************)
assert_bit(wire) == wire \in {0, 1}

\* Elementwise equality of two equal-length lists.  For lists of different
\* length the contract says nothing: with zip the common prefix is compared,
\* otherwise the call raises.
assert_equal(grp, wires1, wires2, zip) ==
    IF Len(wires1) = Len(wires2)
    THEN \A i \in 1 .. Len(wires1) : wires1[i] = wires2[i]
    ELSE /\ zip
         /\ \A i \in 1 .. Min(Len(wires1), Len(wires2)) : wires1[i] = wires2[i]

\* bound > value, valid only when value fits in bits bits; otherwise cmp.
assert_gt(grp, bound, value, bits, cmp) ==
    IF FitsIn(value, bits) THEN bound > value ELSE cmp

\* Equality indicator.
eq(grp, a, b) == IF a = b THEN 1 ELSE 0

\* Bounded greater-than: 1 iff a > b, valid only when both operands fit in
\* bits bits; otherwise the indicator u the caller supplies.
gt(grp, a, b, bits, u) ==
    IF FitsIn(a, bits) /\ FitsIn(b, bits) THEN (IF a > b THEN 1 ELSE 0) ELSE u

RECURSIVE product(_, _)
product(grp, wires) ==
    IF wires = <<>> THEN 1
    ELSE mul(grp, product(grp, SubSeq(wires, 1, Len(wires) - 1)), wires[Len(wires)])

\* AND of binary wires, realised as their product.
and_gate(grp, bits) == product(grp, bits)

(***************************************************************************)
(* ballots.py: single-choice and multi-choice ballots.                     *)
(***************************************************************************)
assert_single_vote(grp, blt, zip) ==
    /\ \A i \in 1 .. Len(blt) : assert_bit(blt[i])
    /\ assert_equal(grp, blt, <<gen(grp, 1)>>, zip)

\* assert_multi_vote with the max_choices branch (lines 59-61) left out.
assert_multi_vote_no_cap(grp, blt, max_choices, bits, max_votes_per_candidate, totalbits, cmp) ==
    LET mv == IF max_votes_per_candidate = None THEN gen(grp, 1)
              ELSE max_votes_per_candidate[1]
    IN  \A i \in 1 .. Len(blt) : assert_gt(grp, mv, blt[i], bits, cmp)

assert_multi_vote(grp, blt, max_choices, bits, max_votes_per_candidate, totalbits, cmp) ==
    LET mv == IF max_votes_per_candidate = None THEN gen(grp, 1)
              ELSE max_votes_per_candidate[1]
        tb == IF totalbits = None THEN Len(blt) ELSE totalbits[1]
    IN  /\ \A i \in 1 .. Len(blt) : assert_gt(grp, mv, blt[i], bits, cmp)
        /\ max_choices # None =>
              LET n_choices == sum(grp, blt)
              IN  assert_gt(grp, max_choices[1], n_choices, tb, cmp)

(***************************************************************************)
(* State machine: a call draws its arguments (pc = "ready") and the gate   *)
(* is applied to them (pc = "done").                                       *)
(***************************************************************************)
NoParams == [max_choices |-> None, bits |-> 1,
             max_votes_per_candidate |-> None, totalbits |-> None]
NoCurve == [g |-> 0, pk |-> 0, x |-> 0, r |-> 0, r_bits |-> <<>>,
            n_max_bits_x |-> None]

Idle(o) ==
    /\ pc = "ready"
    /\ op = o
    /\ accepted = FALSE
    /\ points = <<>>
    /\ ct = <<>>

InitSingleVote ==
    /\ Idle("assert_single_vote")
    /\ group \in GroupOrders
    /\ ballot \in SeqsOf(Elems(group), 1, MaxLen)
    /\ matrix = <<>> /\ params = NoParams /\ ordered_points = <<>>
    /\ curve = NoCurve

CallSingleVote ==
    /\ pc = "ready" /\ op = "assert_single_vote"
    /\ \E zip \in BOOLEAN : accepted' = assert_single_vote(group, ballot, zip)
    /\ pc' = "done"
    /\ UNCHANGED <<op, group, ballot, matrix, params, ordered_points, curve, points, ct>>

SpecSingleVote == InitSingleVote /\ [][CallSingleVote]_vars

\* C1: assert_single_vote accepts a ballot if and only if every entry is 0 or
\* 1 and exactly one entry is 1.
OnesIn(blt) == Cardinality({i \in 1 .. Len(blt) : blt[i] = 1})
IsBinary(blt) == \A i \in 1 .. Len(blt) : blt[i] \in {0, 1}
C1_SingleVoteIffExactlyOne ==
    (pc = "done" /\ op = "assert_single_vote")
        => (accepted <=> (IsBinary(ballot) /\ OnesIn(ballot) = 1))

(***************************************************************************)
(* assert_multi_vote calls.                                                *)
(***************************************************************************)
MaxVotes == 2
MaxTotalBits == 4

OptionOf(S) == {None} \cup {Some(v) : v \in S}

InitMultiVote ==
    /\ Idle("assert_multi_vote")
    /\ group \in GroupOrders
    /\ ballot \in SeqsOf(Elems(group) \cap (0 .. MaxEntry), 1, MaxMultiLen)
    /\ params \in [max_choices : OptionOf(Elems(group) \cap (0 .. MaxEntry)),
                   bits : 1 .. MaxBits,
                   max_votes_per_candidate : OptionOf(Elems(group) \cap (1 .. MaxVotes)),
                   totalbits : OptionOf(1 .. MaxTotalBits)]
    /\ matrix = <<>> /\ ordered_points = <<>>
    /\ curve = NoCurve

CallMultiVote ==
    /\ pc = "ready" /\ op = "assert_multi_vote"
    /\ \E cmp \in BOOLEAN :
          accepted' = assert_multi_vote(group, ballot, params.max_choices, params.bits,
                                        params.max_votes_per_candidate, params.totalbits, cmp)
    /\ pc' = "done"
    /\ UNCHANGED <<op, group, ballot, matrix, params, ordered_points, curve, points, ct>>

SpecMultiVote == InitMultiVote /\ [][CallMultiVote]_vars

\* C2: with default parameters assert_multi_vote accepts a ballot if and only
\* if every entry is 0 or 1, whatever the number of ones.
C2_MultiVoteDefaultIsBinaryCheck ==
    (pc = "done" /\ op = "assert_multi_vote" /\ params = NoParams)
        => (accepted <=> IsBinary(ballot))

EffTotalBits == IF params.totalbits = None THEN Len(ballot) ELSE params.totalbits[1]
EffMaxVotes == IF params.max_votes_per_candidate = None THEN 1
               ELSE params.max_votes_per_candidate[1]

RECURSIVE indicator_bit_up(_, _, _)
indicator_bit_up(grp, blt, n) ==
    IF n = 1 THEN blt[1]
    ELSE add(grp, indicator_bit_up(grp, blt, n - 1),
             mul(grp, sub(grp, blt[n], blt[n - 1]), blt[n]))

\* assert_line_vote_ballot without the final assert_bit(indicator_bit_up).
assert_line_vote_ballot_no_final(grp, blt) ==
    /\ assert_bit(blt[1])
    /\ \A idx \in 1 .. (Len(blt) - 1) : assert_bit(blt[idx + 1])

assert_line_vote_ballot(grp, blt) ==
    /\ assert_bit(blt[1])
    /\ \A idx \in 1 .. (Len(blt) - 1) : assert_bit(blt[idx + 1])
    /\ assert_bit(indicator_bit_up(grp, blt, Len(blt)))

InitLineVote ==
    /\ Idle("assert_line_vote_ballot")
    /\ group \in GroupOrders
    /\ ballot \in SeqsOf(Elems(group), 1, MaxLen)
    /\ matrix = <<>> /\ params = NoParams /\ ordered_points = <<>>
    /\ curve = NoCurve

CallLineVote ==
    /\ pc = "ready" /\ op = "assert_line_vote_ballot"
    /\ accepted' = assert_line_vote_ballot(group, ballot)
    /\ pc' = "done"
    /\ UNCHANGED <<op, group, ballot, matrix, params, ordered_points, curve, points, ct>>

SpecLineVote == InitLineVote /\ [][CallLineVote]_vars

OneRun(blt) ==
    \A i, j, k \in 1 .. Len(blt) :
        (i < k /\ k < j /\ blt[i] = 1 /\ blt[j] = 1) => blt[k] = 1

\* C6: in a group whose order exceeds the ballot length, assert_line_vote_ballot
\* accepts a non-empty ballot if and only if every entry is 0 or 1 and the
\* ones form at most one contiguous run.
C6_LineVoteIffOneRun ==
    (pc = "done" /\ op = "assert_line_vote_ballot" /\ Len(ballot) < group)
        => (accepted <=> (IsBinary(ballot) /\ OneRun(ballot)))

C6_Witness ==
    /\ pc = "done" /\ op = "assert_line_vote_ballot"
    /\ Len(ballot) < group
    /\ ballot = <<1, 1, 1, 0, 0>>
    /\ accepted

(***************************************************************************)
(* listgates.py and the point-list Borda ballot.                           *)
(***************************************************************************)
RECURSIVE get_n_occurences(_, _, _)
get_n_occurences(grp, wires, wire) ==
    IF wires = <<>> THEN gen(grp, 0)
    ELSE add(grp, get_n_occurences(grp, SubSeq(wires, 1, Len(wires) - 1), wire),
             eq(grp, wires[Len(wires)], wire))

\* assert_pointlist_borda_ballot without the comparison of the zero count.
assert_pointlist_borda_ballot_no_zeros(grp, blt, pts, zip) ==
    \A p \in 1 .. Len(pts) :
        LET n_occ == get_n_occurences(grp, blt, pts[p])
        IN  assert_equal(grp, <<n_occ>>, <<gen(grp, 1)>>, zip)

assert_pointlist_borda_ballot(grp, blt, pts, zip) ==
    LET expected_zeros == gen(grp, Len(blt) - Len(pts))
        num_zeros == get_n_occurences(grp, blt, gen(grp, 0))
    IN  /\ assert_equal(grp, <<expected_zeros>>, <<num_zeros>>, zip)
        /\ \A p \in 1 .. Len(pts) :
              LET n_occ == get_n_occurences(grp, blt, pts[p])
              IN  assert_equal(grp, <<n_occ>>, <<gen(grp, 1)>>, zip)

\* The strictly descending list of the values of S.
RECURSIVE Descending(_)
Descending(S) ==
    IF S = {} THEN <<>>
    ELSE LET m == CHOOSE v \in S : \A w \in S : w <= v
         IN  <<m>> \o Descending(S \ {m})

InitPointlist ==
    /\ Idle("assert_pointlist_borda_ballot")
    /\ group \in GroupOrders
    /\ ballot \in SeqsOf(Elems(group) \cap (0 .. MaxEntry), 1, MaxPointLen)
    /\ ordered_points \in {Descending(S) : S \in SUBSET (Elems(group) \cap (1 .. MaxEntry))}
    /\ matrix = <<>> /\ params = NoParams
    /\ curve = NoCurve

CallPointlist ==
    /\ pc = "ready" /\ op = "assert_pointlist_borda_ballot"
    /\ \E zip \in BOOLEAN :
          accepted' = assert_pointlist_borda_ballot(group, ballot, ordered_points, zip)
    /\ pc' = "done"
    /\ UNCHANGED <<op, group, ballot, matrix, params, ordered_points, curve, points, ct>>

SpecPointlist == InitPointlist /\ [][CallPointlist]_vars

Occurrences(blt, v) == Cardinality({i \in 1 .. Len(blt) : blt[i] = v})
DistinctNonZero(pts) ==
    /\ \A i \in 1 .. Len(pts) : pts[i] # 0
    /\ \A i, j \in 1 .. Len(pts) : i # j => pts[i] # pts[j]
PointsPlacedOnce ==
    /\ \A p \in 1 .. Len(ordered_points) : Occurrences(ballot, ordered_points[p]) = 1
    /\ Occurrences(ballot, 0) = Len(ballot) - Len(ordered_points)

\* C7 as stated: for pairwise distinct non-zero points and a ballot at least as
\* long, the ballot is accepted if and only if each point occurs exactly once
\* and exactly len(ballot) - len(ordered_points) entries are zero.
C7_PointlistIffPlacedOnce_AnyGroup ==
    (/\ pc = "done" /\ op = "assert_pointlist_borda_ballot"
     /\ DistinctNonZero(ordered_points)
     /\ Len(ballot) >= Len(ordered_points))
        => (accepted <=> PointsPlacedOnce)

\* C7 amended: the same equivalence in a group whose order exceeds the ballot
\* length, where the occurrence counts cannot wrap around.
C7_PointlistIffPlacedOnce ==
    (/\ pc = "done" /\ op = "assert_pointlist_borda_ballot"
     /\ DistinctNonZero(ordered_points)
     /\ Len(ballot) >= Len(ordered_points)
     /\ Len(ballot) < group)
        => (accepted <=> PointsPlacedOnce)

C7_Witness ==
    /\ pc = "done" /\ op = "assert_pointlist_borda_ballot"
    /\ Len(ballot) < group
    /\ ordered_points = <<3, 2, 1>>
    /\ ballot = <<2, 0, 3, 1>>
    /\ accepted

(***************************************************************************)
(* ballots.py: tournament-style Borda points.  ub is the set of pairs      *)
(* <<i, j>> whose comparison, where undefined, yields 1.                   *)
(***************************************************************************)
compute_borda_tournament_style_ballot(grp, ranking, bits, ub) ==
    [i \in 1 .. Len(ranking) |->
        LET ranking_val == ranking[i]
            n_truely_greater ==
                sum(grp, [j \in 1 .. Len(ranking) |->
                            IF j = i THEN 0
                            ELSE gt(grp, sub(grp, ranking_val, 1), ranking[j], bits,
                                    IF <<i, j>> \in ub THEN 1 ELSE 0)])
            n_eq ==
                sum(grp, [j \in 1 .. Len(ranking) |->
                            IF j = i THEN 0 ELSE eq(grp, ranking_val, ranking[j])])
        IN  add(grp, mul(grp, 2, n_truely_greater), n_eq)]

\* The comparisons of a call whose operands do not both fit in bits bits.
UndefinedComparisons(grp, ranking, bits) ==
    {pr \in (1 .. Len(ranking)) \X (1 .. Len(ranking)) :
        /\ pr[1] # pr[2]
        /\ ~(FitsIn(sub(grp, ranking[pr[1]], 1), bits) /\ FitsIn(ranking[pr[2]], bits))}

InitBorda ==
    /\ Idle("compute_borda_tournament_style_ballot")
    /\ group \in GroupOrders
    /\ ballot \in SeqsOf(Elems(group) \cap (0 .. MaxEntry), 1, MaxRank)
    /\ params \in {[NoParams EXCEPT !.bits = b] : b \in 1 .. MaxBits}
    /\ matrix = <<>> /\ ordered_points = <<>>
    /\ curve = NoCurve

CallBorda ==
    /\ pc = "ready" /\ op = "compute_borda_tournament_style_ballot"
    /\ \E ub \in SUBSET UndefinedComparisons(group, ballot, params.bits) :
          points' = compute_borda_tournament_style_ballot(group, ballot, params.bits, ub)
    /\ pc' = "done"
    /\ UNCHANGED <<op, group, ballot, matrix, params, ordered_points, curve, accepted, ct>>

SpecBorda == InitBorda /\ [][CallBorda]_vars

RECURSIVE IntSum(_)
IntSum(seq) == IF seq = <<>> THEN 0 ELSE IntSum(Tail(seq)) + Head(seq)

\* C4: on a ranking of n pairwise distinct values that fit in bits bits the
\* scores sum to n*(n-1).  Stated on the calls all of whose comparisons are
\* defined and in a group that can hold n*(n-1).
C4_BordaScoresSum ==
    (/\ pc = "done" /\ op = "compute_borda_tournament_style_ballot"
     /\ \A i, j \in 1 .. Len(ballot) : i # j => ballot[i] # ballot[j]
     /\ \A i \in 1 .. Len(ballot) : FitsIn(ballot[i], params.bits)
     /\ UndefinedComparisons(group, ballot, params.bits) = {}
     /\ Len(ballot) * (Len(ballot) - 1) < group)
        => IntSum(points) = Len(ballot) * (Len(ballot) - 1)

(***************************************************************************)
(* ballots.py: Condorcet comparison matrix.                                *)
(***************************************************************************)
Triples(n) ==
    {t \in (1 .. n) \X (1 .. n) \X (1 .. n) : t[1] # t[2] /\ t[1] # t[3] /\ t[2] # t[3]}

\* assert_condorcet_ballot reading ballot[i][k] where the code reads ballot[k][i].
assert_condorcet_ballot_swapped_index(grp, blt, zip) ==
    /\ \A i \in 1 .. Len(blt) : \A j \in 1 .. Len(blt[i]) :
          i # j => assert_bit(blt[i][j])
    /\ \A t \in Triples(Len(blt)) :
          LET i == t[1]  j == t[2]  k == t[3]
              check_matrix_i_j == sub(grp, gen(grp, 1), blt[j][i])
              check_matrix_j_k == sub(grp, gen(grp, 1), blt[k][j])
              check_matrix_i_k == sub(grp, gen(grp, 1), blt[i][k])
              ind_false == and_gate(grp, <<check_matrix_i_j, check_matrix_j_k,
                                           sub(grp, 1, check_matrix_i_k)>>)
          IN  /\ assert_bit(sum(grp, <<blt[i][j], blt[j][i]>>))
              /\ assert_equal(grp, <<ind_false>>, <<gen(grp, 0)>>, zip)

assert_condorcet_ballot(grp, blt, zip) ==
    /\ \A i \in 1 .. Len(blt) : \A j \in 1 .. Len(blt[i]) :
          i # j => assert_bit(blt[i][j])
    /\ \A t \in Triples(Len(blt)) :
          LET i == t[1]  j == t[2]  k == t[3]
              value_i_j == blt[i][j]
              value_j_i == blt[j][i]
              check_matrix_i_j == sub(grp, gen(grp, 1), blt[j][i])
              check_matrix_j_k == sub(grp, gen(grp, 1), blt[k][j])
              check_matrix_i_k == sub(grp, gen(grp, 1), blt[k][i])
              ind_false == and_gate(grp, <<check_matrix_i_j, check_matrix_j_k,
                                           sub(grp, 1, check_matrix_i_k)>>)
          IN  /\ assert_bit(sum(grp, <<value_i_j, value_j_i>>))
              /\ assert_equal(grp, <<ind_false>>, <<gen(grp, 0)>>, zip)

OffDiagonal(n) == {pr \in (1 .. n) \X (1 .. n) : pr[1] # pr[2]}

\* Square matrices with diagonal d, 0/1 entries off the diagonal given by b,
\* and the off-diagonal cells of the set bad overwritten by MaxCell.
MatrixOf(n, b, d, bad) ==
    [i \in 1 .. n |-> [j \in 1 .. n |->
        IF i = j THEN d
        ELSE IF <<i, j>> \in bad THEN MaxCell
        ELSE b[<<i, j>>]]]

InitCondorcet ==
    /\ Idle("assert_condorcet_ballot")
    /\ group \in GroupOrders
    /\ \E n \in 2 .. MaxCand :
          \E b \in [OffDiagonal(n) -> {0, 1}], d \in {0, MaxCell},
             bad \in {{}} \cup {{pr} : pr \in OffDiagonal(n)} :
                matrix = MatrixOf(n, b, d, bad)
    /\ ballot = <<>> /\ params = NoParams /\ ordered_points = <<>>
    /\ curve = NoCurve

CallCondorcet ==
    /\ pc = "ready" /\ op = "assert_condorcet_ballot"
    /\ \E zip \in BOOLEAN : accepted' = assert_condorcet_ballot(group, matrix, zip)
    /\ pc' = "done"
    /\ UNCHANGED <<op, group, ballot, matrix, params, ordered_points, curve, points, ct>>

SpecCondorcet == InitCondorcet /\ [][CallCondorcet]_vars

\* C3: whenever a matrix of n >= 2 candidates is accepted,
\* matrix[i][j] + matrix[j][i] is 0 or 1 for every pair i # j.
C3_CondorcetPairwiseExclusion ==
    (pc = "done" /\ op = "assert_condorcet_ballot" /\ accepted)
        => \A pr \in OffDiagonal(Len(matrix)) :
              matrix[pr[1]][pr[2]] + matrix[pr[2]][pr[1]] \in {0, 1}

Injective(f) == \A a, b \in DOMAIN f : a # b => f[a] # f[b]

\* matrix[i][j] = 1 iff i is ranked above j, for some strict total order.
\* If one exists, the position of i is one more than the number of
\* candidates that beat i, so only that ranking needs to be tried.
RankOf(m) ==
    [i \in 1 .. Len(m) |-> 1 + Cardinality({j \in 1 .. Len(m) : j # i /\ m[j][i] = 1})]
EncodesStrictTotalOrder(m) ==
    LET rank == RankOf(m)
    IN  /\ Injective(rank)
        /\ \A pr \in OffDiagonal(Len(m)) :
              m[pr[1]][pr[2]] = (IF rank[pr[1]] < rank[pr[2]] THEN 1 ELSE 0)

ViolatesTransitivity(m) ==
    \E t \in Triples(Len(m)) :
        m[t[2]][t[1]] = 0 /\ m[t[3]][t[2]] = 0 /\ m[t[3]][t[1]] = 1

\* C5: on n >= 3 candidates every matrix encoding a strict total order is
\* accepted, whatever its diagonal, and every matrix with distinct i, j, k
\* such that matrix[j][i] = 0, matrix[k][j] = 0 and matrix[k][i] = 1 is
\* rejected.
C5_CondorcetTransitivity ==
    (pc = "done" /\ op = "assert_condorcet_ballot" /\ Len(matrix) >= 3)
        => /\ EncodesStrictTotalOrder(matrix) => accepted
           /\ ViolatesTransitivity(matrix) => ~accepted

C5_Witness ==
    /\ pc = "done" /\ op = "assert_condorcet_ballot"
    /\ Len(matrix) >= 3
    /\ EncodesStrictTotalOrder(matrix)
    /\ matrix[1][1] # 0
    /\ accepted

(***************************************************************************)
(* expelgamalgates.py.  The Montgomery curve is stood in for by the cyclic *)
(* group of order CurveOrder written additively: a point is an element of  *)
(* 0 .. CurveOrder-1 and g^n is n*g.                                       *)
(***************************************************************************)
Points == 0 .. (CurveOrder - 1)

\* Bit capacity of a group: the least number of bits holding every element.
RECURSIVE BitLength(_)
BitLength(n) == IF n = 0 THEN 0 ELSE 1 + BitLength(n \div 2)
NBits(grp) == BitLength(grp - 1)

\* MSB-first bits of v on n bits (of v modulo 2^n when v does not fit).
RECURSIVE ToBits(_, _)
ToBits(v, n) == IF n = 0 THEN <<>> ELSE Append(ToBits(v \div 2, n - 1), v % 2)

split(grp, x, bit_length) ==
    ToBits(x, IF bit_length = None THEN NBits(grp) ELSE bit_length[1])

\* split is undefined when x does not fit in bit_length bits.
SplitDefined(grp, x, bit_length) ==
    FitsIn(x, IF bit_length = None THEN NBits(grp) ELSE bit_length[1])

add_homogeneous_points(grp, A, B, p1, p2) == (p1 + p2) % CurveOrder

exponent_homogeneous_point(grp, A, B, point, scalar) == (point * scalar) % CurveOrder

\* Double-and-add over the bits, most significant first.
RECURSIVE exponent_homogeneous_point_bit_exponent(_, _, _, _, _)
exponent_homogeneous_point_bit_exponent(grp, A, B, point, bits) ==
    IF bits = <<>> THEN 0
    ELSE LET acc == exponent_homogeneous_point_bit_exponent(
                        grp, A, B, point, SubSeq(bits, 1, Len(bits) - 1))
             dbl == add_homogeneous_points(grp, A, B, acc, acc)
         IN  IF bits[Len(bits)] = 1
             THEN add_homogeneous_points(grp, A, B, dbl, point)
             ELSE dbl

\* The bit-randomness gate with g^r computed from pk instead of g.
exponential_elgamal_bit_randomness_gr_from_pk(grp, A, B, g, pk, x, r_bits, n_max_bits_x) ==
    LET x_bits == split(grp, x, n_max_bits_x)
        gx == exponent_homogeneous_point_bit_exponent(grp, A, B, g, x_bits)
        pkr == exponent_homogeneous_point_bit_exponent(grp, A, B, pk, r_bits)
        gr == exponent_homogeneous_point_bit_exponent(grp, A, B, pk, r_bits)
    IN  <<gr, add_homogeneous_points(grp, A, B, gx, pkr)>>

exponential_elgamal_over_montgomery_curve_bit_randomness(grp, A, B, g, pk, x, r_bits, n_max_bits_x) ==
    LET x_bits == split(grp, x, n_max_bits_x)
        gx == exponent_homogeneous_point_bit_exponent(grp, A, B, g, x_bits)
        pkr == exponent_homogeneous_point_bit_exponent(grp, A, B, pk, r_bits)
        gr == exponent_homogeneous_point_bit_exponent(grp, A, B, g, r_bits)
    IN  <<gr, add_homogeneous_points(grp, A, B, gx, pkr)>>

\* The scalar gate adding g^r, instead of pk^r, to g^x.
exponential_elgamal_c_from_gr(grp, A, B, g, pk, x, r) ==
    LET gx == exponent_homogeneous_point(grp, A, B, g, x)
        gr == exponent_homogeneous_point(grp, A, B, g, r)
    IN  <<gr, add_homogeneous_points(grp, A, B, gx, gr)>>

exponential_elgamal_over_montgomery_curve(grp, A, B, g, pk, x, r) ==
    LET gx == exponent_homogeneous_point(grp, A, B, g, x)
        pkr == exponent_homogeneous_point(grp, A, B, pk, r)
        gr == exponent_homogeneous_point(grp, A, B, g, r)
    IN  <<gr, add_homogeneous_points(grp, A, B, gx, pkr)>>

CurveA == [name |-> "A"]
CurveB == [name |-> "B"]

InitElGamal ==
    /\ pc = "ready" /\ accepted = FALSE /\ points = <<>> /\ ct = <<>>
    /\ group \in GroupOrders
    /\ \/ /\ op = "exponential_elgamal_over_montgomery_curve"
          /\ curve \in [g : Points, pk : Points, x : Elems(group), r : Elems(group),
                        r_bits : {<<>>}, n_max_bits_x : {None}]
       \/ /\ op = "exponential_elgamal_over_montgomery_curve_bit_randomness"
          /\ curve \in [g : Points, pk : Points, x : Elems(group), r : {0},
                        r_bits : SeqsOf({0, 1}, 0, NBits(LargeOrder)),
                        n_max_bits_x : OptionOf(1 .. MaxBits)]
    /\ ballot = <<>> /\ matrix = <<>> /\ params = NoParams /\ ordered_points = <<>>

CallElGamal ==
    /\ pc = "ready" /\ op = "exponential_elgamal_over_montgomery_curve"
    /\ ct' = exponential_elgamal_over_montgomery_curve(
                group, CurveA, CurveB, curve.g, curve.pk, curve.x, curve.r)
    /\ accepted' = TRUE
    /\ pc' = "done"
    /\ UNCHANGED <<op, group, ballot, matrix, params, ordered_points, curve, points>>

\* When x does not fit in n_max_bits_x bits the bit split is undefined: it
\* either raises (no ciphertext) or yields the low-order bits.
CallElGamalBits ==
    /\ pc = "ready" /\ op = "exponential_elgamal_over_montgomery_curve_bit_randomness"
    /\ \E trunc \in BOOLEAN :
          IF SplitDefined(group, curve.x, curve.n_max_bits_x) \/ trunc
          THEN /\ ct' = exponential_elgamal_over_montgomery_curve_bit_randomness(
                           group, CurveA, CurveB, curve.g, curve.pk, curve.x,
                           curve.r_bits, curve.n_max_bits_x)
               /\ accepted' = TRUE
          ELSE /\ ct' = <<>>
               /\ accepted' = FALSE
    /\ pc' = "done"
    /\ UNCHANGED <<op, group, ballot, matrix, params, ordered_points, curve, points>>

NextElGamal == CallElGamal \/ CallElGamalBits

SpecElGamal == InitElGamal /\ [][NextElGamal]_vars

\* C8: called with r_bits the canonical MSB-first decomposition of r and
\* n_max_bits_x left at its default, the bit-randomness variant returns the
\* ciphertext the scalar variant returns for r.
C8_ElGamalVariantsAgree ==
    (/\ pc = "done"
     /\ op = "exponential_elgamal_over_montgomery_curve_bit_randomness"
     /\ curve.n_max_bits_x = None)
        => \A r \in Elems(group) :
              curve.r_bits = split(group, r, None)
                  => ct = exponential_elgamal_over_montgomery_curve(
                              group, CurveA, CurveB, curve.g, curve.pk, curve.x, r)

C8_Witness ==
    /\ pc = "done"
    /\ op = "exponential_elgamal_over_montgomery_curve_bit_randomness"
    /\ curve.n_max_bits_x = None
    /\ curve.g # 0 /\ curve.pk # curve.g /\ curve.pk # 0 /\ curve.x > 1
    /\ \E r \in Elems(group) : r > 1 /\ curve.r_bits = split(group, r, None)
    /\ ct[1] # ct[2]

\* C10: the scalar variant returns (R, C) with R = g^r and C = g^x + pk^r, and
\* for every secret key sk with pk = g^sk the relation C - sk*R = g^x holds.
C10_ElGamalDecrypts ==
    (pc = "done" /\ op = "exponential_elgamal_over_montgomery_curve")
        => /\ ct[1] = (curve.r * curve.g) % CurveOrder
           /\ ct[2] = (curve.x * curve.g + curve.r * curve.pk) % CurveOrder
           /\ \A sk \in Points :
                 curve.pk = (sk * curve.g) % CurveOrder
                     => (ct[2] - sk * ct[1]) % CurveOrder = (curve.x * curve.g) % CurveOrder

C10_Witness ==
    /\ pc = "done" /\ op = "exponential_elgamal_over_montgomery_curve"
    /\ curve.g # 0 /\ curve.x > 1 /\ curve.r > 1
    /\ \E sk \in Points : sk > 1 /\ curve.pk = (sk * curve.g) % CurveOrder
    /\ ct[1] # 0 /\ ct[2] # (curve.x * curve.g) % CurveOrder

====
